---------------------------- MODULE Spec2Model ----------------------------
(***************************************************************************)
(* Model of the top-of-block auction lane, blockbuster/tob_lane.go:        *)
(* the lane's pool and membership index, Insert / Remove / Contains /      *)
(* CountTx, VerifyTx, ProcessLane and the bid selection loop of            *)
(* PrepareLane; Spec has one caller at a time, FairSpec the PrepareLane    *)
(* calls under fairness, FaultSpec a pool whose Remove can fail, ConcSpec  *)
(* callers that run at the same time.                                      *)
(***************************************************************************)
EXTENDS Integers, Sequences, FiniteSets

(***************************************************************************)
(* Bounds of the model.                                                    *)
(***************************************************************************)
\* capacity of the lane's pool (the maxTx argument of NewTOBLane)
MaxTx == 2
\* largest priority carried by the context of an Insert call
MaxPriority == 2
\* largest byte budget handed to PrepareLane
MaxBudget == 2
\* number of callers that use the lane at the same time
MaxThreads == 2

(***************************************************************************)
(* The transactions.  A, B, C, D, E, F are bid transactions, M is a       *)
(* transaction whose bid info cannot be extracted, x, y, bad are plain     *)
(* transactions, U is a transaction the encoder rejects.                   *)
(***************************************************************************)
Txs == {"A", "B", "C", "D", "E", "F", "M", "x", "y", "bad", "U"}

\* transactions the ingestion path hands to Insert / Remove
IngestTxs == {"A", "B", "C", "D", "E", "F", "x", "U"}

\* transactions the node hands to VerifyTx
VerifyTxs == {"A", "C", "D", "E", "F", "M", "x"}

\* the proposals the node hands to ProcessLane: one that starts with a
\* plain transaction, one that starts with bid B, its bundle [x], then x
ProposalTxs ==
  {<< <<"x">> >>, << <<"B">>, <<"x">>, <<"x">> >>}

\* transactions the concurrent callers work with
ConcTxs == {"B", "F"}

\* transactions an earlier lane may already have put in the proposal
EarlierLaneTxs == {"A"}

\* encoded length of each transaction, in bytes
TxSize(tx) ==
  CASE tx = "A" -> 2
    [] OTHER    -> 1

\* sdk.TxEncoder: the encoding is tx's name repeated TxSize(tx) times; the
\* encoder fails on U
txEncoder(tx) ==
  IF tx = "U" THEN [bz |-> <<>>, err |-> TRUE]
  ELSE [bz |-> [i \in 1..TxSize(tx) |-> tx], err |-> FALSE]

\* a bundled payload that does not decode to a transaction
MalformedBz == <<"?">>

\* sdk.TxDecoder / af.WrapBundleTransaction: the transaction whose encoding
\* is the payload, or an error
WrapBundleTransaction(raw) ==
  IF \E t \in Txs : ~txEncoder(t).err /\ txEncoder(t).bz = raw
  THEN [tx  |-> CHOOSE t \in Txs : ~txEncoder(t).err /\ txEncoder(t).bz = raw,
        err |-> FALSE]
  ELSE [tx |-> "", err |-> TRUE]

NoBidInfo == [isNil |-> TRUE, Bid |-> 0, Transactions |-> <<>>]

BidInfo(bid, payloads) ==
  [isNil |-> FALSE, Bid |-> bid, Transactions |-> payloads]

\* af.GetAuctionBidInfo: (bidInfo, err); plain transactions give (nil, nil)
GetAuctionBidInfo(tx) ==
  CASE tx = "A" -> [bidInfo |-> BidInfo(3, <<txEncoder("x").bz, txEncoder("y").bz>>), err |-> FALSE]
    [] tx = "B" -> [bidInfo |-> BidInfo(2, <<txEncoder("x").bz>>), err |-> FALSE]
    [] tx = "C" -> [bidInfo |-> BidInfo(4, <<txEncoder("x").bz, txEncoder("bad").bz>>), err |-> FALSE]
    [] tx = "D" -> [bidInfo |-> BidInfo(5, <<txEncoder("B").bz>>), err |-> FALSE]
    [] tx = "E" -> [bidInfo |-> BidInfo(1, <<MalformedBz>>), err |-> FALSE]
    [] tx = "F" -> [bidInfo |-> BidInfo(6, <<>>), err |-> FALSE]
    [] tx = "M" -> [bidInfo |-> NoBidInfo, err |-> TRUE]
    [] OTHER    -> [bidInfo |-> NoBidInfo, err |-> FALSE]

\* TOBLane.Match
Match(tx) ==
  LET r == GetAuctionBidInfo(tx) IN ~r.bidInfo.isNil /\ ~r.err

(***************************************************************************)
(* The execution context.  A context is the sequence of writes made to its *)
(* store: <<"ok", tx>> for a transaction the validation hook accepted,     *)
(* <<"fail", tx>> for what the hook wrote before it rejected tx.           *)
(***************************************************************************)
Applied(c) == {c[i][2] : i \in {j \in 1..Len(c) : c[j][1] = "ok"}}

EntryCtxs == {<<>>, << <<"ok", "x">> >>}

\* ctx.CacheContext(): the fork starts as a copy of its parent
CacheContext(c) == c

\* the write() returned by ctx.CacheContext(): the parent takes the fork's store
write(parent, cache) == cache

\* does the validation hook accept tx in context c: F and bad never pass,
\* y needs the effects of x (its sequence number follows x's)
AnteAccepts(c, tx) ==
  CASE tx \in {"F", "bad"} -> FALSE
    [] tx = "y"            -> "x" \in Applied(c)
    [] OTHER               -> TRUE

\* sdk.AnteHandler: (newCtx, err); it writes to the context's store in place
AnteHandler(c, tx) ==
  IF AnteAccepts(c, tx)
  THEN [ctx |-> Append(c, <<"ok", tx>>), err |-> FALSE]
  ELSE [ctx |-> Append(c, <<"fail", tx>>), err |-> TRUE]

\* TOBLane.verifyTx; hook is "set" or "nil"
verifyTx(hook, c, tx) ==
  IF hook # "nil" THEN AnteHandler(c, tx) ELSE [ctx |-> c, err |-> FALSE]

\* TOBLane.prepareProposalVerifyTx: (txBz, err), and the store of c after it
prepareProposalVerifyTx(hook, c, tx) ==
  LET e == txEncoder(tx)
      v == verifyTx(hook, c, tx)
  IN IF e.err THEN [bz |-> <<>>, err |-> TRUE, ctx |-> c]
     ELSE IF v.err THEN [bz |-> <<>>, err |-> TRUE, ctx |-> v.ctx]
     ELSE [bz |-> e.bz, err |-> FALSE, ctx |-> v.ctx]

\* sha256 + hex of the encoding: collision free
Sha256Hex(bz) == <<"sha256">> \o bz

\* TOBLane.getTxHashStr: (txHashStr, err)
getTxHashStr(tx) ==
  LET e == txEncoder(tx)
  IN IF e.err THEN [hash |-> <<>>, err |-> TRUE]
     ELSE [hash |-> Sha256Hex(e.bz), err |-> FALSE]


(***************************************************************************)
(* The priority mempool behind the lane (l.index): a sequence of entries   *)
(* [tx, priority], highest priority first, earlier insertion first among   *)
(* equal priorities.                                                       *)
(***************************************************************************)
PoolTxs(pool) == {pool[i].tx : i \in 1..Len(pool)}

\* mempool.NewDefaultTxPriority(): the priority of a transaction is the
\* priority carried by the context of the Insert call
GetTxPriority(goCtx, tx) == goCtx.priority

\* position at which an entry of priority p goes: after every entry whose
\* priority is at least p
InsertPos(pool, p) == Cardinality({i \in 1..Len(pool) : pool[i].priority >= p}) + 1

\* Mempool.Insert: (pool', err)
PoolInsert(pool, goCtx, tx) ==
  IF tx \in PoolTxs(pool) THEN [pool |-> pool, err |-> "DuplicateError"]
  ELSE IF Len(pool) >= MaxTx THEN [pool |-> pool, err |-> "CapacityError"]
  ELSE LET p == GetTxPriority(goCtx, tx)
           k == InsertPos(pool, p)
       IN [pool |-> SubSeq(pool, 1, k - 1) \o <<[tx |-> tx, priority |-> p]>>
                      \o SubSeq(pool, k, Len(pool)),
           err  |-> ""]

\* Mempool.Remove: (pool', err)
PoolRemove(pool, tx) ==
  IF tx \notin PoolTxs(pool) THEN [pool |-> pool, err |-> "ErrTxNotFound"]
  ELSE [pool |-> SelectSeq(pool, LAMBDA e : e.tx # tx), err |-> ""]

\* Mempool.Select: the snapshot iterator, as the sequence it will yield
PoolSelect(pool) == [i \in 1..Len(pool) |-> pool[i].tx]

\* Mempool.CountTx
PoolCountTx(pool) == Len(pool)

(***************************************************************************)
(* The lane's own operations on the pair (index, txIndex).                 *)
(***************************************************************************)
\* TOBLane.Contains: (ok, err)
Contains(idx, tx) ==
  LET h == getTxHashStr(tx)
  IN IF h.err THEN [ok |-> FALSE, err |-> TRUE]
     ELSE [ok |-> h.hash \in idx, err |-> FALSE]

\* an Insert that updates the membership index before asking the pool
LaneInsert_IndexFirst(pool, idx, goCtx, tx) ==
  LET h == getTxHashStr(tx)
      r == PoolInsert(pool, goCtx, tx)
  IN IF h.err THEN [index |-> pool, txIndex |-> idx, err |-> "EncodeError"]
     ELSE IF r.err # "" THEN [index |-> pool, txIndex |-> idx \cup {h.hash}, err |-> r.err]
     ELSE [index |-> r.pool, txIndex |-> idx \cup {h.hash}, err |-> ""]

\* an Insert that drops the pool's error
LaneInsert_IgnoreError(pool, idx, goCtx, tx) ==
  LET h == getTxHashStr(tx)
      r == PoolInsert(pool, goCtx, tx)
  IN IF h.err THEN [index |-> pool, txIndex |-> idx, err |-> "EncodeError"]
     ELSE [index |-> r.pool, txIndex |-> idx \cup {h.hash}, err |-> ""]

\* an Insert that asks the pool before it hashes the transaction
LaneInsert_HashAfterPool(pool, idx, goCtx, tx) ==
  LET h == getTxHashStr(tx)
      r == PoolInsert(pool, goCtx, tx)
  IN IF r.err # "" THEN [index |-> pool, txIndex |-> idx, err |-> r.err]
     ELSE IF h.err THEN [index |-> r.pool, txIndex |-> idx, err |-> "EncodeError"]
     ELSE [index |-> r.pool, txIndex |-> idx \cup {h.hash}, err |-> ""]

\* TOBLane.Insert: the lane after the call and the error returned
LaneInsert(pool, idx, goCtx, tx) ==
  LET h == getTxHashStr(tx)
      r == PoolInsert(pool, goCtx, tx)
  IN IF h.err THEN [index |-> pool, txIndex |-> idx, err |-> "EncodeError"]
     ELSE IF r.err # "" THEN [index |-> pool, txIndex |-> idx, err |-> r.err]
     ELSE [index |-> r.pool, txIndex |-> idx \cup {h.hash}, err |-> ""]

\* a Remove that forgets the membership index
LaneRemove_KeepIndex(pool, idx, tx) ==
  LET h == getTxHashStr(tx)
      r == PoolRemove(pool, tx)
  IN IF h.err THEN [index |-> pool, txIndex |-> idx, err |-> "EncodeError"]
     ELSE IF r.err # "" /\ r.err # "ErrTxNotFound"
     THEN [index |-> pool, txIndex |-> idx, err |-> r.err]
     ELSE [index |-> r.pool, txIndex |-> idx, err |-> ""]

\* a Remove that surfaces the pool's not-found error
LaneRemove_NotFoundIsError(pool, idx, tx) ==
  LET h == getTxHashStr(tx)
      r == PoolRemove(pool, tx)
  IN IF h.err THEN [index |-> pool, txIndex |-> idx, err |-> "EncodeError"]
     ELSE IF r.err # "" THEN [index |-> pool, txIndex |-> idx, err |-> r.err]
     ELSE [index |-> r.pool, txIndex |-> idx \ {h.hash}, err |-> ""]

\* TOBLane.Remove: the lane after the call and the error returned
LaneRemove(pool, idx, tx) ==
  LET h == getTxHashStr(tx)
      r == PoolRemove(pool, tx)
  IN IF h.err THEN [index |-> pool, txIndex |-> idx, err |-> "EncodeError"]
     ELSE IF r.err # "" /\ r.err # "ErrTxNotFound"
     THEN [index |-> pool, txIndex |-> idx, err |-> r.err]
     ELSE [index |-> r.pool, txIndex |-> idx \ {h.hash}, err |-> ""]

\* TOBLane.CountTx
CountTx(pool) == PoolCountTx(pool)

(***************************************************************************)
(* PrepareLane, one candidate.                                             *)
(***************************************************************************)
\* the selectedTxs argument: hash -> bytes of the transactions of s
SelectedMap(s) ==
  [h \in {getTxHashStr(t).hash : t \in s} |->
     txEncoder(CHOOSE t \in s : getTxHashStr(t).hash = h).bz]

RECURSIVE SumLen(_, _)
SumLen(m, keys) ==
  IF keys = {} THEN 0
  ELSE LET k == CHOOSE h \in keys : TRUE
       IN Len(m[k]) + SumLen(m, keys \ {k})

\* the size of the transactions selected thus far
SelectedBytes(m) == SumLen(m, DOMAIN m)

\* the size test of the bid transaction
bidTxFits(bidTxSize, maxBytes, totalBytes) == bidTxSize <= maxBytes

\* the loop over bundledTransactions: wrap and verify each payload on the
\* candidate's fork c; (ok, fork after, sdkTxBytes)
RECURSIVE verifyBundled(_, _, _, _)
verifyBundled(hook, c, payloads, acc) ==
  IF payloads = <<>> THEN [ok |-> TRUE, ctx |-> c, sdkTxBytes |-> acc]
  ELSE LET w == WrapBundleTransaction(Head(payloads))
           v == prepareProposalVerifyTx(hook, c, w.tx)
       IN IF w.err THEN [ok |-> FALSE, ctx |-> c, sdkTxBytes |-> <<>>]
          ELSE IF v.err THEN [ok |-> FALSE, ctx |-> v.ctx, sdkTxBytes |-> <<>>]
          ELSE verifyBundled(hook, v.ctx, Tail(payloads), Append(acc, v.bz))

Candidate(kind, cacheCtx, bidTxBz, sdkTxBytes) ==
  [kind |-> kind, cacheCtx |-> cacheCtx, bidTxBz |-> bidTxBz,
   sdkTxBytes |-> sdkTxBytes]

\* one pass through the body of selectBidTxLoop for candidate tmpBidTx on a
\* fork of context c.  kind is "error" (return nil, err), "skip" (already in
\* the proposal), "remove" (marked, next candidate) or "select"
selectBidTx(hook, c, tmpBidTx, maxBytes, selTxs, totalBytes) ==
  LET cacheCtx == CacheContext(c)
      h        == getTxHashStr(tmpBidTx)
      v        == prepareProposalVerifyTx(hook, cacheCtx, tmpBidTx)
      g        == GetAuctionBidInfo(tmpBidTx)
      b        == verifyBundled(hook, v.ctx, g.bidInfo.Transactions, <<>>)
  IN IF h.err THEN Candidate("error", cacheCtx, <<>>, <<>>)
     ELSE IF h.hash \in DOMAIN selTxs THEN Candidate("skip", cacheCtx, <<>>, <<>>)
     ELSE IF v.err THEN Candidate("remove", v.ctx, <<>>, <<>>)
     ELSE IF ~bidTxFits(Len(v.bz), maxBytes, totalBytes)
     THEN Candidate("remove", v.ctx, v.bz, <<>>)
     ELSE IF g.bidInfo.isNil \/ g.err THEN Candidate("remove", v.ctx, v.bz, <<>>)
     ELSE IF ~b.ok THEN Candidate("remove", b.ctx, v.bz, <<>>)
     ELSE Candidate("select", b.ctx, v.bz, b.sdkTxBytes)

\* TOBLane.VerifyTx on the caller's context c: the error returned, whether
\* the call dereferenced a nil bid info, and the caller's store afterwards
RECURSIVE verifyTxBundle(_, _, _)
verifyTxBundle(hook, c, payloads) ==
  IF payloads = <<>> THEN [err |-> "", ctx |-> c]
  ELSE LET w == WrapBundleTransaction(Head(payloads))
           v == verifyTx(hook, c, w.tx)
       IN IF w.err THEN [err |-> "failed to decode bundled tx", ctx |-> c]
          ELSE IF ~GetAuctionBidInfo(w.tx).bidInfo.isNil
          THEN [err |-> "bundled tx cannot be a bid tx", ctx |-> c]
          ELSE IF v.err
          THEN [err |-> "failed to execute bundled transaction", ctx |-> v.ctx]
          ELSE verifyTxBundle(hook, v.ctx, Tail(payloads))

\* a VerifyTx that validates the bundle without the effects of the bid
VerifyTx_BundleWithoutBid(hook, c, bidTx) ==
  LET g == GetAuctionBidInfo(bidTx)
      v == verifyTx(hook, c, bidTx)
      b == verifyTxBundle(hook, c, g.bidInfo.Transactions)
  IN IF g.err THEN [err |-> "failed to get auction bid info", panic |-> FALSE, ctx |-> c]
     ELSE IF v.err
     THEN [err |-> "failed to execute ante handler", panic |-> FALSE, ctx |-> v.ctx]
     ELSE IF g.bidInfo.isNil THEN [err |-> "", panic |-> TRUE, ctx |-> v.ctx]
     ELSE [err |-> b.err, panic |-> FALSE, ctx |-> b.ctx]

VerifyTx(hook, c, bidTx) ==
  LET g == GetAuctionBidInfo(bidTx)
      v == verifyTx(hook, c, bidTx)
      b == verifyTxBundle(hook, v.ctx, g.bidInfo.Transactions)
  IN IF g.err THEN [err |-> "failed to get auction bid info", panic |-> FALSE, ctx |-> c]
     ELSE IF v.err
     THEN [err |-> "failed to execute ante handler", panic |-> FALSE, ctx |-> v.ctx]
     ELSE IF g.bidInfo.isNil THEN [err |-> "", panic |-> TRUE, ctx |-> v.ctx]
     ELSE [err |-> b.err, panic |-> FALSE, ctx |-> b.ctx]

(***************************************************************************)
(* The state.                                                              *)
(***************************************************************************)
VARIABLES
  index,          \* l.index, the priority mempool
  txIndex,        \* l.txIndex, the set of hashes of the transactions held
  anteHandler,    \* l.anteHandler: "set" or "nil"
  pc,             \* "idle", inside PrepareLane ("scan", "remove"), or "done"
  ctx,            \* the store of the context the running call was given
  entryCtx,       \* that store as it was when the call was made
  maxTxBytes,     \* PrepareLane's byte budget
  selectedTxs,    \* PrepareLane's map of already selected transactions
  totalTxBytes,   \* PrepareLane's local totalTxBytes
  snapshot,       \* what l.index.Select returned to PrepareLane
  bidTxIterator,  \* the candidates the iterator has yet to yield
  txsToRemove,    \* PrepareLane's local txsToRemove
  removeRange,    \* the keys of txsToRemove the removal loop has yet to visit
  tmpSelectedTxs, \* PrepareLane's local tmpSelectedTxs
  result,         \* what PrepareLane returned: [txs, err]
  lastOp,         \* the last completed call: [op, tx, err]
  proposalTxs,    \* the txs argument of ProcessLane
  next,           \* the call ProcessLane made to the next lane: [called, txs]
  threads         \* the calls of the concurrent callers, one record each

vars == <<index, txIndex, anteHandler, pc, ctx, entryCtx, maxTxBytes,
          selectedTxs, totalTxBytes, snapshot, bidTxIterator, txsToRemove,
          removeRange, tmpSelectedTxs, result, lastOp, proposalTxs, next,
          threads>>

laneVars == <<index, txIndex>>

processVars == <<proposalTxs, next>>

Threads == 1..MaxThreads

prepareVars == <<ctx, entryCtx, maxTxBytes, selectedTxs, totalTxBytes, snapshot,
                 bidTxIterator, txsToRemove, removeRange, tmpSelectedTxs, result>>

\* the variables of the caller that makes one call after the other
callerVars == <<pc, prepareVars, lastOp, processVars>>

NoResult == [txs |-> <<>>, err |-> ""]

NoOp == [op |-> "", tx |-> "", err |-> ""]

\* the next lane has not been called
NotCalled == [called |-> FALSE, txs |-> <<>>]

\* a caller with no call in progress
IdleThread ==
  [op |-> "", at |-> "idle", tx |-> "", hash |-> <<>>, ret |-> "",
   iter |-> <<>>, toRemove |-> {}, selected |-> <<>>]

\* the locals of PrepareLane when no call is in progress
PrepareIdle ==
  /\ ctx = <<>>
  /\ entryCtx = <<>>
  /\ maxTxBytes = 0
  /\ selectedTxs = SelectedMap({})
  /\ totalTxBytes = 0
  /\ snapshot = <<>>
  /\ bidTxIterator = <<>>
  /\ txsToRemove = {}
  /\ removeRange = {}
  /\ tmpSelectedTxs = <<>>
  /\ result = NoResult

\* the locals of the last PrepareLane call are gone
PrepareDiscard ==
  /\ ctx' = <<>>
  /\ entryCtx' = <<>>
  /\ maxTxBytes' = 0
  /\ selectedTxs' = SelectedMap({})
  /\ totalTxBytes' = 0
  /\ snapshot' = <<>>
  /\ bidTxIterator' = <<>>
  /\ txsToRemove' = {}
  /\ removeRange' = {}
  /\ tmpSelectedTxs' = <<>>
  /\ result' = NoResult

\* NewTOBLane: an empty pool and an empty membership index
Init ==
  /\ index = <<>>
  /\ txIndex = {}
  /\ anteHandler \in {"set", "nil"}
  /\ pc = "idle"
  /\ PrepareIdle
  /\ lastOp = NoOp
  /\ proposalTxs = <<>>
  /\ next = NotCalled
  /\ threads = [t \in Threads |-> IdleThread]

\* no call is running and the next one can be made
Quiescent == pc = "idle"

\* TOBLane.Insert(goCtx, tx)
Insert(priority, tx) ==
  /\ Quiescent
  /\ LET r == LaneInsert(index, txIndex, [priority |-> priority], tx)
     IN /\ index' = r.index
        /\ txIndex' = r.txIndex
        /\ lastOp' = [op |-> "Insert", tx |-> tx, err |-> r.err]
  /\ pc' = "done"
  /\ UNCHANGED <<anteHandler, prepareVars, processVars, threads>>

\* TOBLane.Remove(tx)
Remove(tx) ==
  /\ Quiescent
  /\ LET r == LaneRemove(index, txIndex, tx)
     IN /\ index' = r.index
        /\ txIndex' = r.txIndex
        /\ lastOp' = [op |-> "Remove", tx |-> tx, err |-> r.err]
  /\ pc' = "done"
  /\ UNCHANGED <<anteHandler, prepareVars, processVars, threads>>

NilDereference == "panic: nil pointer dereference"

NotImplemented == "panic: not implemented"

\* TOBLane.ProcessLane(ctx, txs): the error it ends with and the call it
\* made to the next lane
ProcessLane(c, txs) == [err |-> NotImplemented, next |-> NotCalled]

ProcessLaneCall(c, txs) ==
  /\ Quiescent
  /\ LET r == ProcessLane(c, txs)
     IN /\ next' = r.next
        /\ lastOp' = [op |-> "ProcessLane", tx |-> "", err |-> r.err]
  /\ proposalTxs' = txs
  /\ ctx' = c
  /\ entryCtx' = c
  /\ pc' = "done"
  /\ UNCHANGED <<laneVars, anteHandler, maxTxBytes, selectedTxs, totalTxBytes,
                 snapshot, bidTxIterator, txsToRemove, removeRange,
                 tmpSelectedTxs, result, threads>>

\* TOBLane.VerifyTx(ctx, bidTx): the hook works on the store of the context
\* the caller passed
VerifyTxCall(c, bidTx) ==
  /\ Quiescent
  /\ LET r == VerifyTx(anteHandler, c, bidTx)
     IN /\ ctx' = r.ctx
        /\ lastOp' = [op |-> "VerifyTx", tx |-> bidTx,
                      err |-> IF r.panic THEN NilDereference ELSE r.err]
  /\ entryCtx' = c
  /\ pc' = "done"
  /\ UNCHANGED <<laneVars, anteHandler, maxTxBytes, selectedTxs, totalTxBytes,
                 snapshot, bidTxIterator, txsToRemove, removeRange,
                 tmpSelectedTxs, result, processVars, threads>>

\* where PrepareLane stands once selectBidTxLoop is over: in the removal
\* loop when there is something to remove, at its return otherwise
afterLoop(toRemove) == IF toRemove = {} THEN "done" ELSE "remove"

\* PrepareLane up to the loop: the size of what is selected thus far, the
\* iterator and the empty txsToRemove; a nil iterator skips the loop
PrepareLaneCall(c, maxBytes, sel) ==
  /\ Quiescent
  /\ pc' = IF PoolSelect(index) = <<>> THEN afterLoop({}) ELSE "scan"
  /\ ctx' = c
  /\ entryCtx' = c
  /\ maxTxBytes' = maxBytes
  /\ selectedTxs' = SelectedMap(sel)
  /\ totalTxBytes' = SelectedBytes(SelectedMap(sel))
  /\ snapshot' = PoolSelect(index)
  /\ bidTxIterator' = PoolSelect(index)
  /\ txsToRemove' = {}
  /\ removeRange' = {}
  /\ tmpSelectedTxs' = <<>>
  /\ result' = NoResult
  /\ lastOp' = [op |-> "PrepareLane", tx |-> "", err |-> ""]
  /\ UNCHANGED <<laneVars, anteHandler, processVars, threads>>

\* a loop that goes on after it has selected a bid
loopControl_NoBreak(kind) ==
  CASE kind = "skip"   -> "continue"
    [] kind = "remove" -> "continue"
    [] kind = "select" -> "continue"
    [] kind = "error"  -> "return"

\* a loop that gives up at the first rejected candidate
loopControl_BreakOnRemove(kind) ==
  CASE kind = "skip"   -> "continue"
    [] kind = "remove" -> "break"
    [] kind = "select" -> "break"
    [] kind = "error"  -> "return"

\* what the loop does after a candidate: the continue / break / return that
\* ends each path through the body
loopControl(kind) ==
  CASE kind = "skip"   -> "continue"
    [] kind = "remove" -> "continue"
    [] kind = "select" -> "break"
    [] kind = "error"  -> "return"

\* a scan that also marks the candidates it skips
markForRemoval_AlsoSkipped(toRemove, kind, tx) ==
  IF kind \in {"remove", "skip"} THEN toRemove \cup {tx} ELSE toRemove

\* txsToRemove[tmpBidTx] = struct{}{}
markForRemoval(toRemove, kind, tx) ==
  IF kind = "remove" THEN toRemove \cup {tx} ELSE toRemove

\* write() called for every examined candidate
commit_Always(kind, parent, cache) ==
  IF kind \in {"select", "remove"} THEN write(parent, cache) ELSE parent

\* the real context after a candidate: write() is called for a winner only
commit(kind, parent, cache) ==
  IF kind = "select" THEN write(parent, cache) ELSE parent

\* a selection that leaves the bundle out
appendSelected_BidOnly(tmp, kind, bidTxBz, sdkTxBytes) ==
  IF kind = "select" THEN Append(tmp, bidTxBz) ELSE tmp

\* tmpSelectedTxs after a candidate: the winner's bytes, then its bundle's
appendSelected(tmp, kind, bidTxBz, sdkTxBytes) ==
  IF kind = "select" THEN Append(tmp, bidTxBz) \o sdkTxBytes ELSE tmp

\* one iteration of selectBidTxLoop, up to the next test of the iterator
SelectBidTxLoop ==
  /\ pc = "scan"
  /\ bidTxIterator # <<>>
  /\ \E r \in {selectBidTx(anteHandler, ctx, Head(bidTxIterator), maxTxBytes,
                             selectedTxs, totalTxBytes)} :
     LET tmpBidTx == Head(bidTxIterator)
         k == loopControl(r.kind)
         over == k = "break" \/ (k = "continue" /\ Tail(bidTxIterator) = <<>>)
     IN /\ ctx' = commit(r.kind, ctx, r.cacheCtx)
        /\ txsToRemove' = markForRemoval(txsToRemove, r.kind, tmpBidTx)
        /\ tmpSelectedTxs' = appendSelected(tmpSelectedTxs, r.kind, r.bidTxBz,
                                             r.sdkTxBytes)
        /\ totalTxBytes' = IF r.kind = "select"
                           THEN totalTxBytes + Len(r.bidTxBz) ELSE totalTxBytes
        /\ bidTxIterator' = IF k = "continue" THEN Tail(bidTxIterator)
                            ELSE bidTxIterator
        /\ pc' = CASE k = "return" -> "done"
                   [] over         -> afterLoop(txsToRemove')
                   [] OTHER        -> "scan"
        /\ removeRange' = IF over THEN txsToRemove' ELSE {}
        /\ result' = CASE k = "return" ->
                            [txs |-> <<>>, err |-> "failed to get bid tx hash"]
                       [] over /\ txsToRemove' = {} ->
                            [txs |-> tmpSelectedTxs', err |-> ""]
                       [] OTHER -> result
  /\ UNCHANGED <<laneVars, anteHandler, entryCtx, maxTxBytes, selectedTxs,
                 snapshot, lastOp, processVars, threads>>

\* one iteration of "for tx := range txsToRemove": l.Remove(tx), and the
\* return that follows the last one
RemoveInvalid ==
  /\ pc = "remove"
  /\ \E tx \in removeRange :
       LET r == LaneRemove(index, txIndex, tx)
       IN /\ index' = r.index
          /\ txIndex' = r.txIndex
          /\ removeRange' = removeRange \ {tx}
          /\ pc' = IF r.err # "" THEN "done" ELSE afterLoop(removeRange')
          /\ result' = CASE r.err # "" -> [txs |-> <<>>, err |-> r.err]
                         [] removeRange' = {} -> [txs |-> tmpSelectedTxs, err |-> ""]
                         [] OTHER -> result
  /\ UNCHANGED <<anteHandler, ctx, entryCtx, maxTxBytes, selectedTxs,
                 totalTxBytes, snapshot, bidTxIterator, txsToRemove,
                 tmpSelectedTxs, lastOp, processVars, threads>>

\* the caller has taken the result of the call; its locals are gone
CallReturned ==
  /\ pc = "done"
  /\ pc' = "idle"
  /\ PrepareDiscard
  /\ lastOp' = NoOp
  /\ proposalTxs' = <<>>
  /\ next' = NotCalled
  /\ UNCHANGED <<laneVars, anteHandler, threads>>

Next ==
  \/ \E p \in 1..MaxPriority, tx \in IngestTxs : Insert(p, tx)
  \/ \E tx \in IngestTxs : Remove(tx)
  \/ \E c \in EntryCtxs, m \in 1..MaxBudget, s \in SUBSET EarlierLaneTxs :
       PrepareLaneCall(c, m, s)
  \/ SelectBidTxLoop
  \/ RemoveInvalid
  \/ \E c \in EntryCtxs, tx \in VerifyTxs : VerifyTxCall(c, tx)
  \/ \E c \in EntryCtxs, txs \in ProposalTxs : ProcessLaneCall(c, txs)
  \/ CallReturned

Spec == Init /\ [][Next]_vars

(***************************************************************************)
(* The PrepareLane calls of a lane that is filled by Insert.  PrepareLane  *)
(* is straight-line code on its caller's thread: once called, it goes on   *)
(* with its scan and with its removals until it returns.                   *)
(***************************************************************************)
\* the bids the pool is filled with: a valid one, one with a malformed
\* bundle, one the validation hook rejects
ScanTxs == {"A", "E", "F"}

ScanNext ==
  \/ \E p \in 1..MaxPriority, tx \in ScanTxs : Insert(p, tx)
  \/ \E c \in EntryCtxs, m \in 1..MaxBudget, s \in SUBSET EarlierLaneTxs :
       PrepareLaneCall(c, m, s)
  \/ SelectBidTxLoop
  \/ RemoveInvalid
  \/ CallReturned

FairSpec ==
  /\ Init
  /\ [][ScanNext]_vars
  /\ WF_vars(SelectBidTxLoop)
  /\ WF_vars(RemoveInvalid)

(***************************************************************************)
(* The lane over a pool whose Remove can fail with an error other than     *)
(* ErrTxNotFound, the structural failure of the removal loop.              *)
(***************************************************************************)
RemoveFailed == "failed to remove invalid transaction from the mempool"

\* one iteration of "for tx := range txsToRemove" in which l.index.Remove
\* returns such an error: l.Remove wraps it and returns before it touches
\* txIndex, PrepareLane returns nil and the error
RemoveInvalidFails ==
  /\ pc = "remove"
  /\ \E tx \in removeRange : removeRange' = removeRange \ {tx}
  /\ result' = [txs |-> <<>>, err |-> RemoveFailed]
  /\ pc' = "done"
  /\ UNCHANGED <<laneVars, anteHandler, ctx, entryCtx, maxTxBytes, selectedTxs,
                 totalTxBytes, snapshot, bidTxIterator, txsToRemove,
                 tmpSelectedTxs, lastOp, processVars, threads>>

FaultNext == Next \/ RemoveInvalidFails

FaultSpec == Init /\ [][FaultNext]_vars

(***************************************************************************)
(* The lane under concurrent callers.  The lane takes no lock, so a call   *)
(* is a sequence of steps: the hash of the transaction (local), the call   *)
(* to the pool (the pool is safe for concurrent use, one step), the access *)
(* to the txIndex map (one step).  threads[t].at is where caller t stands. *)
(***************************************************************************)
\* the context.Context of the concurrent Insert calls
ConcGoCtx == [priority |-> 1]

StartCall(t, op, tx, at, ret) ==
  threads' = [threads EXCEPT ![t] =
                [IdleThread EXCEPT !.op = op, !.tx = tx, !.at = at,
                                   !.hash = getTxHashStr(tx).hash, !.ret = ret]]

\* Insert, Remove, Contains up to the error check of getTxHashStr
ConcCall(t, op, tx) ==
  /\ threads[t].at = "idle"
  /\ IF getTxHashStr(tx).err
     THEN StartCall(t, op, tx, "done", "EncodeError")
     ELSE StartCall(t, op, tx,
                    CASE op = "Insert"   -> "pool_insert"
                      [] op = "Remove"   -> "pool_remove"
                      [] op = "Contains" -> "index_read", "")
  /\ UNCHANGED <<laneVars, anteHandler, callerVars>>

\* Insert: l.index.Insert(goCtx, tx) and the return on its error
ConcPoolInsert(t) ==
  /\ threads[t].at = "pool_insert"
  /\ LET r == PoolInsert(index, ConcGoCtx, threads[t].tx)
     IN /\ index' = r.pool
        /\ threads' = [threads EXCEPT ![t].at = IF r.err # "" THEN "done"
                                                ELSE "index_write",
                                      ![t].ret = r.err]
  /\ UNCHANGED <<txIndex, anteHandler, callerVars>>

\* Insert: l.txIndex[txHashStr] = struct{}{} and the return
ConcIndexWrite(t) ==
  /\ threads[t].at = "index_write"
  /\ txIndex' = txIndex \cup {threads[t].hash}
  /\ threads' = [threads EXCEPT ![t].at = "done"]
  /\ UNCHANGED <<index, anteHandler, callerVars>>

\* Remove: l.index.Remove(tx); not found is tolerated
ConcPoolRemove(t) ==
  /\ threads[t].at = "pool_remove"
  /\ LET r == PoolRemove(index, threads[t].tx)
     IN /\ index' = r.pool
        /\ threads' = [threads EXCEPT ![t].at =
                          IF r.err # "" /\ r.err # "ErrTxNotFound" THEN "done"
                          ELSE "index_delete",
                        ![t].ret =
                          IF r.err # "" /\ r.err # "ErrTxNotFound" THEN r.err
                          ELSE ""]
  /\ UNCHANGED <<txIndex, anteHandler, callerVars>>

\* Remove: delete(l.txIndex, txHashStr) and the return; inside PrepareLane
\* the return leads back to the removal loop
ConcIndexDelete(t) ==
  /\ threads[t].at = "index_delete"
  /\ txIndex' = txIndex \ {threads[t].hash}
  /\ LET rest == threads[t].toRemove \ {threads[t].tx}
     IN threads' = [threads EXCEPT ![t].toRemove = rest,
                                   ![t].at = IF rest = {} THEN "done"
                                             ELSE "remove_loop"]
  /\ UNCHANGED <<index, anteHandler, callerVars>>

\* Contains: _, ok := l.txIndex[txHashStr] and the return
ConcIndexRead(t) ==
  /\ threads[t].at = "index_read"
  /\ threads' = [threads EXCEPT ![t].at = "done",
                                ![t].ret = IF threads[t].hash \in txIndex
                                           THEN "true" ELSE "false"]
  /\ UNCHANGED <<laneVars, anteHandler, callerVars>>

\* CountTx: l.index.CountTx()
ConcCountTx(t) ==
  /\ threads[t].at = "idle"
  /\ threads' = [threads EXCEPT ![t] =
                   [IdleThread EXCEPT !.op = "CountTx", !.at = "done",
                                      !.ret = PoolCountTx(index)]]
  /\ UNCHANGED <<laneVars, anteHandler, callerVars>>

\* PrepareLane up to the loop, on an empty context with the largest budget
\* and nothing selected by earlier lanes
ConcPrepareLaneCall(t) ==
  /\ threads[t].at = "idle"
  /\ threads' = [threads EXCEPT ![t] =
                   [IdleThread EXCEPT !.op = "PrepareLane",
                                      !.iter = PoolSelect(index),
                                      !.at = IF PoolSelect(index) = <<>>
                                             THEN "done" ELSE "scan"]]
  /\ UNCHANGED <<laneVars, anteHandler, callerVars>>

\* PrepareLane: one iteration of selectBidTxLoop; it works on the snapshot
\* and on a fork of the caller's own context, not on the lane
ConcSelectBidTxLoop(t) ==
  /\ threads[t].at = "scan"
  /\ LET tmpBidTx == Head(threads[t].iter)
         r == selectBidTx(anteHandler, <<>>, tmpBidTx, MaxBudget,
                          SelectedMap({}), 0)
         k == loopControl(r.kind)
         marked == markForRemoval(threads[t].toRemove, r.kind, tmpBidTx)
         over == k # "continue" \/ Tail(threads[t].iter) = <<>>
     IN threads' = [threads EXCEPT
                      ![t].toRemove = marked,
                      ![t].selected = appendSelected(threads[t].selected, r.kind,
                                                     r.bidTxBz, r.sdkTxBytes),
                      ![t].iter = IF k = "continue" THEN Tail(threads[t].iter)
                                  ELSE threads[t].iter,
                      ![t].at = CASE k = "return" -> "done"
                                  [] over /\ marked = {} -> "done"
                                  [] over  -> "remove_loop"
                                  [] OTHER -> "scan"]
  /\ UNCHANGED <<laneVars, anteHandler, callerVars>>

\* PrepareLane: the removal loop calls l.Remove(tx)
ConcRemoveInvalid(t) ==
  /\ threads[t].at = "remove_loop"
  /\ \E tx \in threads[t].toRemove :
       threads' = [threads EXCEPT ![t].tx = tx,
                                  ![t].hash = getTxHashStr(tx).hash,
                                  ![t].at = "pool_remove"]
  /\ UNCHANGED <<laneVars, anteHandler, callerVars>>

\* the call of caller t has returned
ConcReturn(t) ==
  /\ threads[t].at = "done"
  /\ threads' = [threads EXCEPT ![t] = IdleThread]
  /\ UNCHANGED <<laneVars, anteHandler, callerVars>>

\* caller t is about to access the txIndex map (to write it)
AccessesIndex(t) == threads[t].at \in {"index_write", "index_delete", "index_read"}

WritesIndex(t) == threads[t].at \in {"index_write", "index_delete"}

\* two callers are at the txIndex map with no lock between them, one of
\* them to write it
IndexRace ==
  \E t1, t2 \in Threads :
     /\ t1 # t2
     /\ AccessesIndex(t1)
     /\ AccessesIndex(t2)
     /\ WritesIndex(t1)

\* the Go runtime may detect the concurrent map access and end the process
\* ("fatal error: concurrent map writes"); when it does not, the accesses
\* go on as ConcIndexWrite, ConcIndexDelete and ConcIndexRead say
ConcurrentMapAccess ==
  /\ IndexRace
  /\ threads' = [t \in Threads |-> [threads[t] EXCEPT !.at = "fatal"]]
  /\ UNCHANGED <<laneVars, anteHandler, callerVars>>

ConcNext ==
  \/ \E t \in Threads, tx \in ConcTxs : ConcCall(t, "Insert", tx)
  \/ \E t \in Threads, tx \in ConcTxs : ConcCall(t, "Remove", tx)
  \/ \E t \in Threads, tx \in ConcTxs : ConcCall(t, "Contains", tx)
  \/ \E t \in Threads : ConcPoolInsert(t)
  \/ \E t \in Threads : ConcIndexWrite(t)
  \/ \E t \in Threads : ConcPoolRemove(t)
  \/ \E t \in Threads : ConcIndexDelete(t)
  \/ \E t \in Threads : ConcIndexRead(t)
  \/ \E t \in Threads : ConcCountTx(t)
  \/ \E t \in Threads : ConcPrepareLaneCall(t)
  \/ \E t \in Threads : ConcSelectBidTxLoop(t)
  \/ \E t \in Threads : ConcRemoveInvalid(t)
  \/ \E t \in Threads : ConcReturn(t)
  \/ ConcurrentMapAccess

ConcSpec == Init /\ [][ConcNext]_vars

(***************************************************************************)
(* Vocabulary of the properties.                                           *)
(***************************************************************************)
Range(q) == {q[i] : i \in 1..Len(q)}

RECURSIVE TotalLen(_)
TotalLen(bzs) == IF bzs = <<>> THEN 0 ELSE Len(Head(bzs)) + TotalLen(Tail(bzs))

\* PrepareLane has returned
Returned == pc = "done" /\ lastOp.op = "PrepareLane"

\* PrepareLane has selected a bid: the loop was left by its break
HasWinner == tmpSelectedTxs # <<>>

\* the selected bid: the iterator still stands on it
Winner == Head(bidTxIterator)

\* the candidates the iterator has yielded so far
Yielded ==
  LET n == Len(snapshot) - Len(bidTxIterator)
  IN {snapshot[i] : i \in 1..(IF HasWinner THEN n + 1 ELSE n)}

\* the candidates the loop has examined: yielded and not already selected
Examined == {t \in Yielded : getTxHashStr(t).hash \notin DOMAIN selectedTxs}

\* what the body of the loop makes of candidate t on a fresh fork of the
\* context PrepareLane was entered with
Outcome(t) ==
  selectBidTx(anteHandler, entryCtx, t, maxTxBytes, selectedTxs,
              SelectedBytes(selectedTxs)).kind

BidOf(t) == GetAuctionBidInfo(t).bidInfo.Bid

\* the bytes of the bundled transactions of bid t, in bundle order
BundleBytes(t) ==
  LET ps == GetAuctionBidInfo(t).bidInfo.Transactions
  IN [i \in 1..Len(ps) |-> txEncoder(WrapBundleTransaction(ps[i]).tx).bz]

\* the bundle of t holds a payload that is itself a bid transaction
HasNestedBid(t) ==
  LET ps == GetAuctionBidInfo(t).bidInfo.Transactions
  IN \E i \in 1..Len(ps) :
       /\ ~WrapBundleTransaction(ps[i]).err
       /\ ~GetAuctionBidInfo(WrapBundleTransaction(ps[i]).tx).bidInfo.isNil

\* t is gone from the lane
Absent(t) == ~Contains(txIndex, t).ok /\ t \notin PoolTxs(index)

(***************************************************************************)
(* C1: the bytes PrepareLane returns (the winning bid plus its bundle)     *)
(* never add up to more than the byte budget it was given.                 *)
(***************************************************************************)
C1_SelectedWithinBudget ==
  Returned => TotalLen(result.txs) <= maxTxBytes

(***************************************************************************)
(* C2: when PrepareLane selects a bid, no candidate of the pool that is    *)
(* not already selected, passes every check and fits the budget carries a  *)
(* strictly higher bid than the selected one.                              *)
(***************************************************************************)
C2_HighestBidWins ==
  (Returned /\ result.txs # <<>>) =>
     \A c \in Range(snapshot) :
        Outcome(c) = "select" => BidOf(c) <= BidOf(Winner)

(***************************************************************************)
(* C3: what PrepareLane has selected is empty or is one bid of the pool    *)
(* that was not rejected, followed by all of its bundled transactions in   *)
(* bundle order.                                                           *)
(***************************************************************************)
OneBidAndItsBundle(txs) ==
  \/ txs = <<>>
  \/ \E t \in Range(snapshot) :
        /\ Match(t)
        /\ t \notin txsToRemove
        /\ txs = <<txEncoder(t).bz>> \o BundleBytes(t)

C4_NestedBidRejected ==
  /\ Returned =>
       \A t \in Examined :
          HasNestedBid(t) =>
             /\ ~(HasWinner /\ t = Winner)
             /\ t \in txsToRemove
             /\ Absent(t)
  /\ \A t \in Txs, c \in EntryCtxs :
       HasNestedBid(t) => VerifyTx(anteHandler, c, t).err # ""

C6_IndexMatchesPool ==
  pc \in {"idle", "done"} =>
     /\ txIndex = {getTxHashStr(t).hash : t \in PoolTxs(index)}
     /\ Cardinality(txIndex) = CountTx(index)
     /\ (lastOp.op = "Insert" /\ lastOp.err = "") => Contains(txIndex, lastOp.tx).ok
     /\ lastOp.op = "Remove" => ~Contains(txIndex, lastOp.tx).ok

C6_Witness ==
  /\ pc = "done"
  /\ lastOp.op = "Insert"
  /\ lastOp.err = ""
  /\ CountTx(index) = 2
  /\ Contains(txIndex, lastOp.tx).ok

(***************************************************************************)
(* C7: an Insert of a transaction whose hash is already in the membership  *)
(* index fails with the duplicate error and changes neither the pool nor   *)
(* the membership index.                                                   *)
(***************************************************************************)
C7_DuplicateInsertFails ==
  [][ \A tx \in IngestTxs :
        (/\ pc = "idle"
         /\ pc' = "done"
         /\ lastOp'.op = "Insert"
         /\ lastOp'.tx = tx
         /\ Contains(txIndex, tx).ok)
        => (/\ lastOp'.err = "DuplicateError"
            /\ index' = index
            /\ txIndex' = txIndex) ]_vars

C7_Witness ==
  /\ pc = "done"
  /\ lastOp.op = "Insert"
  /\ lastOp.err = "DuplicateError"
  /\ Contains(txIndex, lastOp.tx).ok

(***************************************************************************)
(* C8: while PrepareLane scans, the real context stays as it was on entry  *)
(* (so every candidate's fork starts from the entry context); after the    *)
(* return it is the entry context when nothing is selected, and the entry  *)
(* context followed by exactly the effects of the winning bid and of its   *)
(* bundle when something is.                                               *)
(***************************************************************************)
\* what the validation hook writes for bid t and its bundle when all pass
WinnerEffects(t) ==
  LET ps == GetAuctionBidInfo(t).bidInfo.Transactions
  IN IF anteHandler = "nil" THEN <<>>
     ELSE << <<"ok", t>> >>
            \o [i \in 1..Len(ps) |-> <<"ok", WrapBundleTransaction(ps[i]).tx>>]

C8_OnlyWinnerCommitted ==
  /\ pc = "scan" => ctx = entryCtx
  /\ Returned => ctx = IF result.txs = <<>> THEN entryCtx
                       ELSE entryCtx \o WinnerEffects(Winner)

C8_Witness ==
  /\ Returned
  /\ result.txs # <<>>
  /\ anteHandler = "set"
  /\ txsToRemove # {}
  /\ ctx = entryCtx \o WinnerEffects(Winner)
  /\ ctx # entryCtx

(***************************************************************************)
(* C9: a candidate that fails on its own (the hook rejects the bid, no bid *)
(* info, a bundled payload that cannot be wrapped or is invalid, a bid     *)
(* that is too large) never makes PrepareLane return an error: it is       *)
(* marked for removal and the scan goes on, so that the first candidate    *)
(* after it that passes every check is the one selected.                   *)
(***************************************************************************)
C9_FailureSkipsToNext ==
  /\ Returned => result.err = ""
  /\ \A t \in Examined : Outcome(t) = "remove" => t \in txsToRemove
  /\ (pc = "remove" \/ Returned) =>
       IF HasWinner
       THEN /\ Outcome(Winner) = "select"
            /\ \A t \in Yielded \ {Winner} : Outcome(t) # "select"
       ELSE \A t \in Range(snapshot) : Outcome(t) # "select"

C9_Witness ==
  /\ Returned
  /\ HasWinner
  /\ Len(snapshot) = 2
  /\ Winner = snapshot[2]
  /\ snapshot[1] \in txsToRemove
  /\ result.txs = <<txEncoder(Winner).bz>> \o BundleBytes(Winner)

(***************************************************************************)
(* C10: a candidate whose encoded size is more than what is left of the    *)
(* budget (the maximum less the bytes of the already selected              *)
(* transactions) is never selected, is marked for removal and is absent    *)
(* from the lane once PrepareLane has returned.                            *)
(***************************************************************************)
C10_OversizedNeverSelected ==
  Returned =>
     \A t \in Examined :
        Len(txEncoder(t).bz) > maxTxBytes - SelectedBytes(selectedTxs) =>
           /\ ~(HasWinner /\ t = Winner)
           /\ t \in txsToRemove
           /\ Absent(t)

\* the step from before a call of Remove(tx) to its return
RemoveStep(tx) ==
  /\ pc = "idle"
  /\ pc' = "done"
  /\ lastOp'.op = "Remove"
  /\ lastOp'.tx = tx

\* a second Remove(tx) right after the first leaves the lane as the first did
RemoveAgainChangesNothing(tx) ==
  LET again == LaneRemove(index', txIndex', tx)
  IN /\ again.index = index'
     /\ again.txIndex = txIndex'
     /\ again.err = lastOp'.err

(***************************************************************************)
(* C11: Remove of a transaction that is absent from the lane returns no    *)
(* error and changes neither the pool nor the membership index, and a      *)
(* second Remove(T) leaves the lane as the first one left it.              *)
(***************************************************************************)
C11_RemoveIdempotent ==
  [][ \A tx \in IngestTxs :
        RemoveStep(tx) =>
           /\ Absent(tx) => /\ lastOp'.err = ""
                            /\ index' = index
                            /\ txIndex' = txIndex
           /\ RemoveAgainChangesNothing(tx) ]_vars

(***************************************************************************)
(* C11, amended: Remove of a transaction that is absent from the lane      *)
(* changes neither the pool nor the membership index; it returns no error  *)
(* when the encoder accepts the transaction and the encoding error when    *)
(* it does not; a second Remove(T) leaves the lane as the first left it    *)
(* and returns what the first returned for an absent T.                    *)
(***************************************************************************)
C11_RemoveIdempotentWhenEncodable ==
  [][ \A tx \in IngestTxs :
        RemoveStep(tx) =>
           /\ Absent(tx) => /\ lastOp'.err = IF txEncoder(tx).err
                                              THEN "EncodeError" ELSE ""
                            /\ index' = index
                            /\ txIndex' = txIndex
           /\ LET again == LaneRemove(index', txIndex', tx)
              IN /\ again.index = index'
                 /\ again.txIndex = txIndex'
                 /\ again.err = IF txEncoder(tx).err
                                THEN "EncodeError" ELSE "" ]_vars

\* a Remove has returned without error and the pool is still full: the
\* transaction it was given was not in the lane
C11_Witness ==
  /\ pc = "done"
  /\ lastOp.op = "Remove"
  /\ lastOp.err = ""
  /\ CountTx(index) = MaxTx
  /\ Absent(lastOp.tx)

\* VerifyTx has returned (or has ended in a panic)
VerifyReturned == pc = "done" /\ lastOp.op = "VerifyTx"

(***************************************************************************)
(* C12: when VerifyTx returns, with or without an error, the store of the  *)
(* caller's context is what it was when the call was made.                 *)
(***************************************************************************)
C12_VerifyTxLeavesContext ==
  VerifyReturned => ctx = entryCtx

\* ProcessLane has returned (or has ended in a panic)
ProcessReturned == pc = "done" /\ lastOp.op = "ProcessLane"

\* the transaction the proposal starts with
LeadingTx == WrapBundleTransaction(Head(proposalTxs)).tx

\* the proposal starts with bid t followed by the bundle of t
StartsWithBundleOf(t) ==
  LET n == Len(BundleBytes(t))
  IN /\ Len(proposalTxs) >= n + 1
     /\ SubSeq(proposalTxs, 2, n + 1) = BundleBytes(t)

(***************************************************************************)
(* C13: ProcessLane does not crash; for a proposal whose leading           *)
(* transaction does not match the lane it hands the whole proposal to the  *)
(* next lane; for one that starts with a valid bid and its bundle it hands *)
(* the rest of the proposal, after the bid and its bundle, to the next     *)
(* lane.                                                                   *)
(***************************************************************************)
C13_ProcessLaneDelegates ==
  ProcessReturned =>
     /\ lastOp.err # NotImplemented
     /\ ~Match(LeadingTx) => next = [called |-> TRUE, txs |-> proposalTxs]
     /\ (/\ Match(LeadingTx)
         /\ StartsWithBundleOf(LeadingTx)
         /\ VerifyTx(anteHandler, entryCtx, LeadingTx).err = "")
        => next = [called |-> TRUE,
                   txs |-> SubSeq(proposalTxs, Len(BundleBytes(LeadingTx)) + 2,
                                  Len(proposalTxs))]

(***************************************************************************)
(* C14: with callers running at the same time, in every state the          *)
(* membership index holds exactly the hashes of the transactions of the    *)
(* pool, and no two callers are at the membership index at the same time   *)
(* with one of them writing it.                                            *)
(***************************************************************************)
C14_AtomicLaneUpdates ==
  /\ txIndex = {getTxHashStr(t).hash : t \in PoolTxs(index)}
  /\ ~IndexRace

\* the step from before a call of Insert(goCtx, tx) to its return
InsertStep(tx) ==
  /\ pc = "idle"
  /\ pc' = "done"
  /\ lastOp'.op = "Insert"
  /\ lastOp'.tx = tx

(***************************************************************************)
(* C15: an Insert of a transaction the encoder rejects, or into a pool     *)
(* that is at its maximum, returns an error; and an Insert that returns an *)
(* error changes neither the pool nor the membership index, so Contains    *)
(* for that transaction and CountTx answer as before the call.             *)
(***************************************************************************)
C15_FailedInsertChangesNothing ==
  [][ \A tx \in IngestTxs :
        InsertStep(tx) =>
           /\ (getTxHashStr(tx).err \/ CountTx(index) >= MaxTx)
                 => lastOp'.err # ""
           /\ lastOp'.err # "" =>
                 /\ index' = index
                 /\ txIndex' = txIndex
                 /\ Contains(txIndex', tx) = Contains(txIndex, tx)
                 /\ CountTx(index') = CountTx(index) ]_vars

\* an Insert into a full pool has failed for a transaction not in the lane
C15_Witness ==
  /\ pc = "done"
  /\ lastOp.op = "Insert"
  /\ lastOp.err = "CapacityError"
  /\ CountTx(index) = MaxTx
  /\ Cardinality(txIndex) = MaxTx
  /\ ~Contains(txIndex, lastOp.tx).ok

\* candidate t is already in the proposal: the loop skips it
Skipped(t) == getTxHashStr(t).hash \in DOMAIN selectedTxs

\* the snapshot without the candidates marked for removal
Unmarked == SelectSeq(snapshot, LAMBDA t : t \notin txsToRemove)

(***************************************************************************)
(* C16: once PrepareLane has returned, the pool holds the candidates of    *)
(* the snapshot that were not marked, in their order, and the membership   *)
(* index their hashes; a skipped candidate, the winner and the candidates  *)
(* the scan never reached are all still in the pool and in the index.      *)
(***************************************************************************)
C16_OnlyMarkedRemoved ==
  Returned =>
     /\ PoolSelect(index) = Unmarked
     /\ txIndex = {getTxHashStr(t).hash : t \in Range(Unmarked)}
     /\ \A t \in Range(snapshot) :
          (Skipped(t) \/ (HasWinner /\ t = Winner) \/ t \notin Yielded)
             => (Contains(txIndex, t).ok /\ t \in PoolTxs(index))

\* the first candidate was skipped, the second has won, both are kept
C16_Witness ==
  /\ Returned
  /\ HasWinner
  /\ Len(snapshot) = 2
  /\ Skipped(snapshot[1])
  /\ Winner = snapshot[2]
  /\ PoolSelect(index) = snapshot
  /\ Contains(txIndex, snapshot[1]).ok
  /\ Contains(txIndex, Winner).ok

(***************************************************************************)
(* C17: when PrepareLane returns an error it returns no selected           *)
(* transactions and the real context is what it was on entry.              *)
(***************************************************************************)
C17_ErrorReturnCommitsNothing ==
  (Returned /\ result.err # "") =>
     /\ result.txs = <<>>
     /\ ctx = entryCtx

\* what the validation hook has written during the call, in order
HookTrace == SubSeq(ctx, Len(entryCtx) + 1, Len(ctx))

\* the store as it was after the first i writes of the call
StoreAfter(i) == SubSeq(ctx, 1, Len(entryCtx) + i)

Payloads(t) == GetAuctionBidInfo(t).bidInfo.Transactions

\* the i-th transaction VerifyTx has to validate for bid t: t itself, then
\* its bundled transactions in bundle order
StepTx(t, i) ==
  IF i = 1 THEN t ELSE WrapBundleTransaction(Payloads(t)[i - 1]).tx

\* payload i of bid t stops the verification before the hook sees it
Unverifiable(t, i) ==
  LET w == WrapBundleTransaction(Payloads(t)[i])
  IN w.err \/ ~GetAuctionBidInfo(w.tx).bidInfo.isNil

(***************************************************************************)
(* C18: for a bid transaction and a lane with a validation hook, the hook  *)
(* has seen the bid first and then the bundled transactions in bundle      *)
(* order, each on the store left by the ones before it; nothing is         *)
(* validated after the first failure, which makes VerifyTx return an       *)
(* error; VerifyTx returns no error exactly when the bid and every bundled *)
(* transaction have passed.                                                *)
(***************************************************************************)
C18_VerifyTxThreadsContext ==
  (VerifyReturned /\ Match(lastOp.tx) /\ anteHandler = "set") =>
     LET t == lastOp.tx
         n == Len(HookTrace)
         all == 1 + Len(Payloads(t))
     IN /\ StoreAfter(0) = entryCtx
        /\ n \in 1..all
        /\ \A i \in 1..n :
             /\ HookTrace[i][2] = StepTx(t, i)
             /\ StoreAfter(i) = AnteHandler(StoreAfter(i - 1), StepTx(t, i)).ctx
             /\ i < n => HookTrace[i][1] = "ok"
        /\ HookTrace[n][1] = "fail" => lastOp.err # ""
        /\ (HookTrace[n][1] = "ok" /\ n < all) =>
              (Unverifiable(t, n) /\ lastOp.err # "")
        /\ lastOp.err = "" <=> (n = all /\ HookTrace[n][1] = "ok")

\* bid A has passed with its bundle [x, y]; y passes only on x's effects
C18_Witness ==
  /\ VerifyReturned
  /\ anteHandler = "set"
  /\ lastOp.tx = "A"
  /\ lastOp.err = ""
  /\ entryCtx = <<>>
  /\ ~AnteAccepts(entryCtx, "y")
  /\ ctx = << <<"ok", "A">>, <<"ok", "x">>, <<"ok", "y">> >>

(***************************************************************************)
(* C19: for a transaction the lane does not match (the auction factory     *)
(* gives an error, or gives no bid info and no error) VerifyTx returns an  *)
(* error: it neither succeeds nor ends in a panic.                         *)
(***************************************************************************)
C19_NoBidInfoIsAnError ==
  (VerifyReturned /\ ~Match(lastOp.tx)) =>
     /\ lastOp.err # ""
     /\ lastOp.err # NilDereference

\* PrepareLane is inside its scan or its removal loop
Running == pc \in {"scan", "remove"}

\* while the iterator is live: it stands on a candidate, what it has yet to
\* yield is the rest of the snapshot, the snapshot is the pool, which is in
\* priority order and as PrepareLane found it, and nothing is removed yet
ScanInOrder ==
  pc = "scan" =>
     /\ bidTxIterator # <<>>
     /\ bidTxIterator = SubSeq(snapshot, Len(snapshot) - Len(bidTxIterator) + 1,
                               Len(snapshot))
     /\ snapshot = PoolSelect(index)
     /\ \A i \in 1..(Len(index) - 1) : index[i].priority >= index[i + 1].priority
     /\ txIndex = {getTxHashStr(t).hash : t \in Range(snapshot)}
     /\ txsToRemove \subseteq Yielded

\* a step of the scan: the lane is left alone; the iterator moves on by one
\* candidate or the scan is over, which it is exactly when the candidate
\* has been selected or was the last one
ScanStep ==
  pc = "scan" =>
     /\ UNCHANGED laneVars
     /\ pc' = "scan" => bidTxIterator' = Tail(bidTxIterator)
     /\ pc' # "scan" <=> \/ Outcome(Head(bidTxIterator)) = "select"
                         \/ Tail(bidTxIterator) = <<>>

\* a step of the removal loop: one marked candidate less to go
RemoveStepDown ==
  pc = "remove" =>
     /\ removeRange # {}
     /\ removeRange' \subseteq removeRange
     /\ removeRange' # removeRange

(***************************************************************************)
(* C20: a PrepareLane call that has started returns; its scan yields the   *)
(* candidates of the snapshot one by one in the pool's priority order,     *)
(* none twice, and ends at the first candidate that passes every check or  *)
(* after the last one; the lane is not changed before the scan is over,    *)
(* and each step of the removal loop takes one marked candidate.           *)
(***************************************************************************)
C20_PrepareLaneTerminates ==
  /\ []ScanInOrder
  /\ [][ScanStep /\ RemoveStepDown]_vars
  /\ Running ~> (pc = "done")

\* a scan over a full pool has marked every candidate, all are removed and
\* PrepareLane has returned
C20_Witness ==
  /\ Returned
  /\ ~HasWinner
  /\ Len(snapshot) = MaxTx
  /\ bidTxIterator = <<>>
  /\ txsToRemove = Range(snapshot)
  /\ removeRange = {}
  /\ CountTx(index) = 0

=============================================================================
